---------------------------- MODULE Spec2Model ----------------------------
(***************************************************************************)
(* Proof-of-work difficulty core of joulecoin (src/src/pow.cpp):           *)
(* GetNextWorkRequired, CalculateNextWorkRequired, CheckProofOfWork,       *)
(* GetBlockProof and GetBlockProofEquivalentTime, together with the        *)
(* 256-bit unsigned arithmetic (arith_uint256) and the compact target      *)
(* codec they are written against.                                         *)
(*                                                                         *)
(* Numbers wider than the model checker's integers are kept as sequences   *)
(* of bytes, least significant byte first, with no zero byte at the top:   *)
(* the number zero is the empty sequence and two numbers are equal exactly *)
(* when their sequences are.  An arith_uint256 is such a number of at most *)
(* WIDTH_BYTES bytes; every arith_uint256 operation that can carry out of  *)
(* 256 bits is reduced modulo 2^256 by Trunc256.                           *)
(***************************************************************************)
EXTENDS Integers, Sequences, FiniteSets, TLC

(***************************************************************************)
(* Unbounded naturals as byte sequences.                                   *)
(***************************************************************************)
Base == 2^8

Min2(a, b) == IF a <= b THEN a ELSE b

Max2(a, b) == IF a >= b THEN a ELSE b

\* The digit sequences are worked on a range of positions at a time, each
\* range split in two halves, so that no evaluation nests deeper than the
\* logarithm of a number's length.  Where one half hands a carry, borrow or
\* remainder to the other, the IF on it (always true) has the first half
\* evaluated before the second is entered.

RECURSIVE TopDigit(_, _, _)
\* The highest position in lo..hi that holds a non-zero digit, or 0.
TopDigit(s, lo, hi) ==
    IF lo = hi THEN (IF s[lo] # 0 THEN lo ELSE 0)
    ELSE LET mid == (lo + hi) \div 2
             h == TopDigit(s, mid + 1, hi)
         IN  IF h # 0 THEN h ELSE TopDigit(s, lo, mid)

\* s without its zero digits at the top.
Norm(s) == IF Len(s) = 0 THEN s ELSE SubSeq(s, 1, TopDigit(s, 1, Len(s)))

RECURSIVE FromInt(_)
FromInt(n) == IF n = 0 THEN << >> ELSE <<n % Base>> \o FromInt(n \div Base)

Digit(a, i) == IF i <= Len(a) THEN a[i] ELSE 0

RECURSIVE CmpRange(_, _, _, _)
\* The comparison of a and b on the positions lo..hi.
CmpRange(a, b, lo, hi) ==
    IF lo = hi
    THEN (IF a[lo] < b[lo] THEN -1 ELSE IF a[lo] > b[lo] THEN 1 ELSE 0)
    ELSE LET mid == (lo + hi) \div 2
             h == CmpRange(a, b, mid + 1, hi)
         IN  IF h # 0 THEN h ELSE CmpRange(a, b, lo, mid)

\* -1, 0 or 1 as a < b, a = b or a > b.
Cmp(a, b) ==
    IF Len(a) < Len(b) THEN -1
    ELSE IF Len(a) > Len(b) THEN 1
    ELSE IF Len(a) = 0 THEN 0
    ELSE CmpRange(a, b, 1, Len(a))

Leq(a, b) == Cmp(a, b) <= 0

Gt(a, b) == Cmp(a, b) > 0

RECURSIVE AddRange(_, _, _, _, _)
\* The digits lo..hi of a + b given the carry into lo, and the carry out.
AddRange(a, b, lo, hi, carry) ==
    IF lo = hi
    THEN LET t == Digit(a, lo) + Digit(b, lo) + carry
         IN  [d |-> <<t % Base>>, c |-> t \div Base]
    ELSE LET mid == (lo + hi) \div 2
             l == AddRange(a, b, lo, mid, carry)
         IN  IF l.c >= 0
             THEN LET h == AddRange(a, b, mid + 1, hi, l.c)
                  IN  [d |-> l.d \o h.d, c |-> h.c]
             ELSE l

Add(a, b) ==
    IF Len(a) = 0 THEN b
    ELSE IF Len(b) = 0 THEN a
    ELSE LET r == AddRange(a, b, 1, Max2(Len(a), Len(b)), 0)
         IN  IF r.c = 0 THEN r.d ELSE r.d \o <<r.c>>

RECURSIVE SubRange(_, _, _, _, _)
\* The digits lo..hi of a - b given the borrow into lo, and the borrow out.
SubRange(a, b, lo, hi, borrow) ==
    IF lo = hi
    THEN LET t == a[lo] - Digit(b, lo) - borrow
         IN  IF t < 0 THEN [d |-> <<t + Base>>, c |-> 1] ELSE [d |-> <<t>>, c |-> 0]
    ELSE LET mid == (lo + hi) \div 2
             l == SubRange(a, b, lo, mid, borrow)
         IN  IF l.c >= 0
             THEN LET h == SubRange(a, b, mid + 1, hi, l.c)
                  IN  [d |-> l.d \o h.d, c |-> h.c]
             ELSE l

\* a - b for a >= b.
Sub(a, b) == IF Len(b) = 0 THEN a ELSE Norm(SubRange(a, b, 1, Len(a), 0).d)

RECURSIVE MulRange(_, _, _, _, _)
\* The digits lo..hi of a * k given the carry into lo, and the carry out.
MulRange(a, k, lo, hi, carry) ==
    IF lo = hi
    THEN LET t == a[lo] * k + carry
         IN  [d |-> <<t % Base>>, c |-> t \div Base]
    ELSE LET mid == (lo + hi) \div 2
             l == MulRange(a, k, lo, mid, carry)
         IN  IF l.c >= 0
             THEN LET h == MulRange(a, k, mid + 1, hi, l.c)
                  IN  [d |-> l.d \o h.d, c |-> h.c]
             ELSE l

\* a * k for a machine-sized k (0 <= k < 2^22).
MulSmall(a, k) ==
    IF k = 0 \/ Len(a) = 0 THEN << >>
    ELSE LET r == MulRange(a, k, 1, Len(a), 0) IN r.d \o FromInt(r.c)

\* n zero digits.
Zeros(n) == SubSeq([i \in 1..n |-> 0], 1, n)

\* a * 256^n.
ShlBytes(a, n) == IF Len(a) = 0 THEN a ELSE Zeros(n) \o a

\* floor(a / 256^n).
ShrBytes(a, n) == IF n >= Len(a) THEN << >> ELSE SubSeq(a, n + 1, Len(a))

RECURSIVE DivSmallRange(_, _, _, _, _)
\* Long division of the digits hi down to lo of a by a machine-sized k,
\* given the remainder brought down into hi: the quotient's digits lo..hi
\* and the remainder left.
DivSmallRange(a, k, lo, hi, rem) ==
    IF lo = hi
    THEN LET cur == rem * Base + a[lo]
         IN  [q |-> <<cur \div k>>, r |-> cur % k]
    ELSE LET mid == (lo + hi) \div 2
             h == DivSmallRange(a, k, mid + 1, hi, rem)
         IN
             IF h.r >= 0
             THEN LET l == DivSmallRange(a, k, lo, mid, h.r)
                  IN  [q |-> l.q \o h.q, r |-> l.r]
             ELSE h

\* floor(cur / b) for a divisor b of three bytes or more and cur < 256 * b.
\* With B the top two bytes of b and C the bytes of cur from the same
\* position up, the digit is one of C \div B, C \div B - 1, C \div B - 2.
QDigit(cur, b) ==
    LET n == Len(b)
        B == b[n] * Base + b[n - 1]
        C == (Digit(cur, n + 1) * Base + Digit(cur, n)) * Base + Digit(cur, n - 1)
        qhat == Min2(C \div B, Base - 1)
    IN  IF Leq(MulSmall(b, qhat), cur) THEN qhat
        ELSE IF Leq(MulSmall(b, qhat - 1), cur) THEN qhat - 1
        ELSE qhat - 2

RECURSIVE DivRange(_, _, _, _, _)
\* The same for a divisor b of any size; the remainder is a number.
DivRange(a, b, lo, hi, rem) ==
    IF lo = hi
    THEN LET cur == Norm(<<a[lo]>> \o rem)
         IN  IF Cmp(cur, b) < 0 THEN [q |-> <<0>>, r |-> cur]
             ELSE LET d == QDigit(cur, b)
                  IN  [q |-> <<d>>, r |-> Sub(cur, MulSmall(b, d))]
    ELSE LET mid == (lo + hi) \div 2
             h == DivRange(a, b, mid + 1, hi, rem)
         IN  IF Len(h.r) >= 0
             THEN LET l == DivRange(a, b, lo, mid, h.r)
                  IN  [q |-> l.q \o h.q, r |-> l.r]
             ELSE h

\* floor(a / b) for b # 0, by schoolbook long division; a divisor of at most
\* two bytes is divided by with a machine-sized remainder.
Div(a, b) ==
    IF Len(a) = 0 THEN a
    ELSE IF Len(b) <= 2
    THEN Norm(DivSmallRange(a, Digit(b, 1) + Base * Digit(b, 2), 1, Len(a), 0).q)
    ELSE Norm(DivRange(a, b, 1, Len(a), << >>).q)

RECURSIVE BitLen(_)
BitLen(n) == IF n = 0 THEN 0 ELSE 1 + BitLen(n \div 2)

\* The number of significant bits of a (0 for zero).
NatBits(a) == IF Len(a) = 0 THEN 0 ELSE 8 * (Len(a) - 1) + BitLen(a[Len(a)])

\* 2^(8*n).
Pow256(n) == Zeros(n) \o <<1>>


(***************************************************************************)
(* arith_uint256: 256-bit unsigned integers with wrap-around arithmetic.   *)
(***************************************************************************)
\* The width of an arith_uint256 in bytes (256 bits).
WIDTH_BYTES == 256 \div 8

\* The low 256 bits of a: what an arith_uint256 keeps of a wider result.
Trunc256(a) == Norm(SubSeq(a, 1, Min2(Len(a), WIDTH_BYTES)))

\* arith_uint256(uint64_t) for a machine-sized value.
Uint256(n) == FromInt(n)

\* base_uint::operator*=(uint32_t): the product modulo 2^256.
Mul256(a, b32) == Trunc256(MulSmall(a, b32))

\* base_uint::operator/= for a non-zero divisor.
Div256(a, b) == Div(a, b)

\* base_uint::operator+=: the sum modulo 2^256.
Add256(a, b) == Trunc256(Add(a, b))

\* base_uint::operator-=: the difference modulo 2^256.
Sub256(a, b) ==
    IF Leq(b, a) THEN Sub(a, b) ELSE Sub(Add(a, Pow256(WIDTH_BYTES)), b)

\* base_uint::operator~: the bitwise complement, 2^256 - 1 - a.
Not256(a) == Norm(<< >> \o [i \in 1..WIDTH_BYTES |-> (Base - 1) - Digit(a, i)])

\* base_uint::operator<<= by whole bytes, modulo 2^256.
Shl256(a, nbytes) ==
    IF nbytes >= WIDTH_BYTES THEN << >> ELSE Trunc256(ShlBytes(a, nbytes))

\* base_uint::bits(): the position of the highest set bit, plus one.
bits(a) == NatBits(a)

\* base_uint::GetLow64(): the low 64 bits.
GetLow64(a) == Norm(SubSeq(a, 1, Min2(Len(a), 8)))

\* A number of at most three bytes as a machine integer.
Low24(a) == Digit(a, 1) + Base * Digit(a, 2) + Base * Base * Digit(a, 3)

(***************************************************************************)
(* The compact target codec.  A compact value is kept as its exponent byte *)
(* (nCompact >> 24) and its low 24 bits (nCompact & 0x00ffffff).           *)
(***************************************************************************)
SignBit == 2^23

Compact(size, mant) == [size |-> size, mant |-> mant]

\* arith_uint256::SetCompact: the decoded magnitude and the two flags.
SetCompact(nCompact) ==
    LET nSize == nCompact.size
        nWord0 == nCompact.mant % SignBit
        nWord == IF nSize <= 3 THEN nWord0 \div (Base ^ (3 - nSize)) ELSE nWord0
        value == IF nSize <= 3 THEN Uint256(nWord)
                 ELSE Shl256(Uint256(nWord), nSize - 3)
    IN  [value |-> value,
         fNegative |-> nWord # 0 /\ nCompact.mant >= SignBit,
         fOverflow |-> nWord # 0 /\ (\/ nSize > 34
                                     \/ (nWord > 255 /\ nSize > 33)
                                     \/ (nWord > 65535 /\ nSize > 32))]

\* arith_uint256::GetCompact(false): the compact encoding of a magnitude.
GetCompact(a) ==
    LET nSize == (bits(a) + 7) \div 8
        nCompact == IF nSize <= 3
                    THEN Low24(a) * (Base ^ (3 - nSize))
                    ELSE Low24(ShrBytes(a, nSize - 3))
    IN  IF nCompact >= SignBit
        THEN Compact(nSize + 1, nCompact \div Base)
        ELSE Compact(nSize, nCompact)


(***************************************************************************)
(* The retargeting constants of pow.cpp.                                   *)
(***************************************************************************)
nTargetTimespan == 45

nTargetSpacing == 45

nInterval == nTargetTimespan \div nTargetSpacing

nHeightVer2 == 32000

nHeightVer3 == 90000

nAveragingInterval1 == nInterval * 160

nAveragingTargetTimespan1 == nAveragingInterval1 * nTargetSpacing

nAveragingInterval2 == nInterval * 8

nAveragingTargetTimespan2 == nAveragingInterval2 * nTargetSpacing

nAveragingInterval3 == nAveragingInterval2

nAveragingTargetTimespan3 == nAveragingTargetTimespan2

nMaxAdjustDown1 == 10

nMaxAdjustUp1 == 1

nMaxAdjustDown2 == 1

nMaxAdjustUp2 == 1

nMaxAdjustDown3 == 3

nMaxAdjustUp3 == 1

nMinActualTimespan1 == (nAveragingTargetTimespan1 * (100 - nMaxAdjustUp1)) \div 100

nMaxActualTimespan1 == (nAveragingTargetTimespan1 * (100 + nMaxAdjustDown1)) \div 100

nMinActualTimespan2 == (nAveragingTargetTimespan2 * (100 - nMaxAdjustUp2)) \div 100

nMaxActualTimespan2 == (nAveragingTargetTimespan2 * (100 + nMaxAdjustDown2)) \div 100

nMinActualTimespan3 == (nAveragingTargetTimespan3 * (100 - nMaxAdjustUp3)) \div 100

nMaxActualTimespan3 == (nAveragingTargetTimespan3 * (100 + nMaxAdjustDown3)) \div 100

(***************************************************************************)
(* The ancestor chain view.  A chain is a record describing every entry    *)
(* from the genesis entry (height 0) to the tip (height nHeight); a        *)
(* CBlockIndex pointer into it is a height, or NULL.  The entry at height  *)
(* h has the entry at height h - 1 as its pprev and the genesis entry has  *)
(* none.  The last `run' entries carry the stored target hiBits and the    *)
(* entries below them loBits; entries are dt apart in time, except the tip *)
(* whose time is tipTime.                                                  *)
(***************************************************************************)
NULL == -1

pprev(h) == IF h > 0 THEN h - 1 ELSE NULL

\* CBlockIndex::GetBlockTime of the entry at height h.
GetBlockTime(chain, h) ==
    IF h = chain.nHeight THEN chain.tipTime ELSE chain.t0 + h * chain.dt

\* CBlockIndex::nBits of the entry at height h.
nBitsAt(chain, h) ==
    IF h > chain.nHeight - chain.run THEN chain.hiBits ELSE chain.loBits

\* The entry at height h as CalculateNextWorkRequired reads it.
BlockIndex(chain, h) ==
    [nHeight |-> h, nTime |-> GetBlockTime(chain, h), nBits |-> nBitsAt(chain, h)]

\* Consensus::Params::DifficultyAdjustmentInterval().
DifficultyAdjustmentInterval(params) ==
    params.nPowTargetTimespan \div params.nPowTargetSpacing

(***************************************************************************)
(* CalculateNextWorkRequired.                                              *)
(***************************************************************************)
\* The era's clamp pair and averaging timespan, chosen by the tip's height.
EraLimits(nHeight) ==
    IF nHeight + 1 >= nHeightVer3
    THEN [nMinActualTimespan |-> nMinActualTimespan3,
          nMaxActualTimespan |-> nMaxActualTimespan3,
          nAveragingTargetTimespan |-> nAveragingTargetTimespan3]
    ELSE IF nHeight + 1 >= nHeightVer2
    THEN [nMinActualTimespan |-> nMinActualTimespan2,
          nMaxActualTimespan |-> nMaxActualTimespan2,
          nAveragingTargetTimespan |-> nAveragingTargetTimespan2]
    ELSE [nMinActualTimespan |-> nMinActualTimespan1,
          nMaxActualTimespan |-> nMaxActualTimespan1,
          nAveragingTargetTimespan |-> nAveragingTargetTimespan1]

\* The limit adjustment step without its second test: the timespan is kept
\* above the minimum only.
LimitAdjustmentStepLowerOnly(nActualTimespan, lim) ==
    IF nActualTimespan < lim.nMinActualTimespan
    THEN lim.nMinActualTimespan ELSE nActualTimespan

\* "Limit adjustment step": the actual timespan after both clamps.
LimitAdjustmentStep(nActualTimespan, lim) ==
    LET lower == IF nActualTimespan < lim.nMinActualTimespan
                 THEN lim.nMinActualTimespan ELSE nActualTimespan
    IN  IF lower > lim.nMaxActualTimespan THEN lim.nMaxActualTimespan ELSE lower

\* The clamped timespan CalculateNextWorkRequired retargets with.
ClampedTimespan(pindexLast, nFirstBlockTime) ==
    LimitAdjustmentStep(pindexLast.nTime - nFirstBlockTime,
                        EraLimits(pindexLast.nHeight))

\* "Retarget": bnNew *= nActualTimespan; bnNew /= nAveragingTargetTimespan.
Retarget(bnOld, nActualTimespan, nAveragingTargetTimespan) ==
    Div256(Mul256(bnOld, nActualTimespan), Uint256(nAveragingTargetTimespan))

\* bnNew after the retarget, before the cap to powLimit.
RetargetedTarget(pindexLast, nFirstBlockTime) ==
    Retarget(SetCompact(pindexLast.nBits).value,
             ClampedTimespan(pindexLast, nFirstBlockTime),
             EraLimits(pindexLast.nHeight).nAveragingTargetTimespan)

\* if (bnNew > bnPowLimit) bnNew = bnPowLimit.
CapToLimit(bnNew, bnPowLimit) == IF Gt(bnNew, bnPowLimit) THEN bnPowLimit ELSE bnNew

CalculateNextWorkRequired(pindexLast, nFirstBlockTime, params) ==
    IF params.fPowNoRetargeting THEN pindexLast.nBits
    ELSE GetCompact(CapToLimit(RetargetedTarget(pindexLast, nFirstBlockTime),
                               params.powLimit))


\* What the call writes to the debug log: nothing when retargeting is
\* disabled; otherwise the clamped nActualTimespan, bnOld ("Before:") and
\* the capped bnNew ("After:").
CalculateLog(pindexLast, nFirstBlockTime, params) ==
    IF params.fPowNoRetargeting THEN << >>
    ELSE [nActualTimespan |-> ClampedTimespan(pindexLast, nFirstBlockTime),
          bnOld |-> SetCompact(pindexLast.nBits).value,
          bnNew |-> CapToLimit(RetargetedTarget(pindexLast, nFirstBlockTime),
                               params.powLimit)]

(***************************************************************************)
(* GetNextWorkRequired.                                                    *)
(***************************************************************************)
\* The stored target of a call that did not return (the assert failed).
NoBits == Compact(NULL, NULL)

\* UintToArith256(params.powLimit).GetCompact().
ProofOfWorkLimit(params) == GetCompact(params.powLimit)

\* The genesis guard without its height test.
GenesisGuardNullOnly(pindexLast) == pindexLast = NULL

\* The genesis guard: no tip, or a candidate height below the first window.
GenesisGuard(pindexLast) ==
    \/ pindexLast = NULL
    \/ pindexLast + 1 < nAveragingInterval1

\* The while loop's condition without the adjustment-interval test.
KeepsWalkingOffInterval(chain, pindex, nProofOfWorkLimit, params) ==
    /\ pprev(pindex) # NULL
    /\ nBitsAt(chain, pindex) = nProofOfWorkLimit

\* The while loop's condition on pindex.
KeepsWalking(chain, pindex, nProofOfWorkLimit, params) ==
    /\ pprev(pindex) # NULL
    /\ pindex % DifficultyAdjustmentInterval(params) # 0
    /\ nBitsAt(chain, pindex) = nProofOfWorkLimit

\* One turn of the while loop: the entry it moves to, or the entry it stops
\* on and that it has stopped.
MinDifficultyTurn(chain, pindex, nProofOfWorkLimit, params) ==
    IF KeepsWalking(chain, pindex, nProofOfWorkLimit, params)
    THEN [pindex |-> pprev(pindex), stopped |-> FALSE]
    ELSE [pindex |-> pindex, stopped |-> TRUE]

RECURSIVE MinDifficultyTurns(_, _, _, _, _)
\* The loop after at most k turns.  The turns are taken in two halves; the
\* second half is not entered once the loop has stopped.
MinDifficultyTurns(chain, pindex, k, nProofOfWorkLimit, params) ==
    IF k = 1 THEN MinDifficultyTurn(chain, pindex, nProofOfWorkLimit, params)
    ELSE LET half == MinDifficultyTurns(chain, pindex, k \div 2,
                                        nProofOfWorkLimit, params)
         IN  IF half.stopped THEN half
             ELSE MinDifficultyTurns(chain, half.pindex, k - k \div 2,
                                     nProofOfWorkLimit, params)

\* "Return the last non-special-min-difficulty-rules-block": the entry the
\* while loop stops on.  The loop steps down one entry a turn, so it has
\* stopped after one turn more than pindex has entries below it.
MinDifficultyWalk(chain, pindex, nProofOfWorkLimit, params) ==
    MinDifficultyTurns(chain, pindex, pindex + 1, nProofOfWorkLimit, params).pindex

\* The special difficulty rule for testnet.
MinDifficultyRule(chain, pindexLast, nBlockTime, params) ==
    IF nBlockTime > GetBlockTime(chain, pindexLast) + params.nPowTargetSpacing * 2
    THEN [pindex |-> NULL, nBits |-> ProofOfWorkLimit(params)]
    ELSE LET pindex == MinDifficultyWalk(chain, pindexLast,
                                         ProofOfWorkLimit(params), params)
         IN  [pindex |-> pindex, nBits |-> nBitsAt(chain, pindex)]

\* The era's averaging window, chosen by the tip's height.
AveragingInterval(nHeight) ==
    IF nHeight + 1 >= nHeightVer3 THEN nAveragingInterval3
    ELSE IF nHeight + 1 >= nHeightVer2 THEN nAveragingInterval2
    ELSE nAveragingInterval1

\* The for loop's turn with the condition i < nAveragingInterval: one turn
\* too many.
WalkBackTurnOneMore(w, nAveragingInterval) ==
    IF w.pindexFirst # NULL /\ w.i < nAveragingInterval
    THEN [pindexFirst |-> pprev(w.pindexFirst), i |-> w.i + 1]
    ELSE w

\* One turn of the for loop, or none when its condition fails.
WalkBackTurn(w, nAveragingInterval) ==
    IF w.pindexFirst # NULL /\ w.i < nAveragingInterval - 1
    THEN [pindexFirst |-> pprev(w.pindexFirst), i |-> w.i + 1]
    ELSE w

RECURSIVE WalkBackTurns(_, _, _)
\* pindexFirst and i after at most k turns of the for loop, taken in two
\* halves; the second half is not entered once pindexFirst is NULL.
WalkBackTurns(w, k, nAveragingInterval) ==
    IF k = 1 THEN WalkBackTurn(w, nAveragingInterval)
    ELSE LET half == WalkBackTurns(w, k \div 2, nAveragingInterval)
         IN  IF half.pindexFirst = NULL THEN half
             ELSE WalkBackTurns(half, k - k \div 2, nAveragingInterval)

\* "Go back by what we want to be nAveragingInterval worth of blocks": the
\* for loop's pindexFirst and i when it ends.  i counts the turns and the
\* loop ends once i has reached nAveragingInterval - 1, so it ends within
\* nAveragingInterval turns.
WalkBack(pindexLast, nAveragingInterval) ==
    WalkBackTurns([pindexFirst |-> pindexLast, i |-> 0],
                  nAveragingInterval, nAveragingInterval)

\* The call's outcome: which path it took, whether the assert failed, the
\* value returned, and what the walks ended on.
GetNextWorkRequired(chain, pindexLast, nBlockTime, params) ==
    IF GenesisGuard(pindexLast)
    THEN [path |-> "genesis", asserted |-> FALSE, nBits |-> ProofOfWorkLimit(params),
          pindex |-> NULL, steps |-> 0, nFirstBlockTime |-> 0]
    ELSE IF params.fPowAllowMinDifficultyBlocks
    THEN LET r == MinDifficultyRule(chain, pindexLast, nBlockTime, params)
         IN  [path |-> "mindiff", asserted |-> FALSE, nBits |-> r.nBits,
              pindex |-> r.pindex, steps |-> 0, nFirstBlockTime |-> 0]
    ELSE LET w == WalkBack(pindexLast, AveragingInterval(pindexLast))
         IN  IF w.pindexFirst = NULL
             THEN [path |-> "retarget", asserted |-> TRUE, nBits |-> NoBits,
                   pindex |-> NULL, steps |-> w.i, nFirstBlockTime |-> 0]
             ELSE [path |-> "retarget", asserted |-> FALSE,
                   nBits |-> CalculateNextWorkRequired(
                                 BlockIndex(chain, pindexLast),
                                 GetBlockTime(chain, w.pindexFirst), params),
                   pindex |-> w.pindexFirst, steps |-> w.i,
                   nFirstBlockTime |-> GetBlockTime(chain, w.pindexFirst)]

(***************************************************************************)
(* CheckProofOfWork, GetBlockProof, GetBlockProofEquivalentTime.           *)
(***************************************************************************)
\* CheckProofOfWork with the hash compared by >= : a hash equal to the
\* target is turned down.
CheckProofOfWorkStrict(hash, nBits, params) ==
    LET t == SetCompact(nBits)
    IN  IF \/ t.fNegative
           \/ t.value = << >>
           \/ t.fOverflow
           \/ Gt(t.value, params.powLimit)
        THEN FALSE
        ELSE IF Cmp(hash, t.value) >= 0 THEN FALSE
        ELSE TRUE

CheckProofOfWork(hash, nBits, params) ==
    LET t == SetCompact(nBits)
    IN  IF \/ t.fNegative
           \/ t.value = << >>
           \/ t.fOverflow
           \/ Gt(t.value, params.powLimit)
        THEN FALSE
        ELSE IF Gt(hash, t.value) THEN FALSE
        ELSE TRUE

\* The work without the final + 1.
WorkOfTargetNoCarry(bnTarget) ==
    Div256(Not256(bnTarget), Add256(bnTarget, Uint256(1)))

\* (~bnTarget / (bnTarget + 1)) + 1.
WorkOfTarget(bnTarget) ==
    Add256(Div256(Not256(bnTarget), Add256(bnTarget, Uint256(1))), Uint256(1))

GetBlockProof(nBits) ==
    LET t == SetCompact(nBits)
    IN  IF t.fNegative \/ t.fOverflow \/ t.value = << >>
        THEN << >>
        ELSE WorkOfTarget(t.value)

\* 2^63 and 2^64.
Two63 == MulSmall(Pow256(7), 128)

Two64 == Pow256(8)

\* std::numeric_limits<int64_t>::max().
Int64Max == Sub(Two63, FromInt(1))

\* A signed 64-bit value, as its sign and its magnitude.
Int64(neg, mag) == [neg |-> neg /\ mag # << >>, mag |-> mag]

\* to.nChainWork > from.nChainWork: the branch that keeps sign = 1.
ToIsAhead(toWork, fromWork) == Gt(toWork, fromWork)

\* The work difference with the else branch leaving sign at 1.
WorkDifferenceUnsigned(toWork, fromWork) ==
    IF ToIsAhead(toWork, fromWork)
    THEN [r |-> Sub256(toWork, fromWork), sign |-> 1]
    ELSE [r |-> Sub256(fromWork, toWork), sign |-> 1]

\* The absolute work difference and the sign, as the if/else computes them.
WorkDifference(toWork, fromWork) ==
    IF ToIsAhead(toWork, fromWork)
    THEN [r |-> Sub256(toWork, fromWork), sign |-> 1]
    ELSE [r |-> Sub256(fromWork, toWork), sign |-> -1]


\* r * arith_uint256(params.nPowTargetSpacing) / GetBlockProof(tip), for a tip
\* of non-zero work.
ScaleByWork(r, nPowTargetSpacing, tipWork) ==
    Div256(Mul256(r, nPowTargetSpacing), tipWork)

\* sign * std::numeric_limits<int64_t>::max().
Saturated(sign) == Int64(sign = -1, Int64Max)

\* sign * r.GetLow64(): the product is taken in uint64_t, where sign = -1 is
\* 2^64 - 1, and is then converted to int64_t (two's complement).
SignTimesLow64(sign, low64) ==
    LET u == IF sign = 1 \/ low64 = << >> THEN low64 ELSE Sub(Two64, low64)
    IN  IF Cmp(u, Two63) < 0 THEN Int64(FALSE, u) ELSE Int64(TRUE, Sub(Two64, u))

\* The call's outcome: threw is the uint_error of a division by zero (a tip
\* whose GetBlockProof is zero); otherwise value is the value returned.
GetBlockProofEquivalentTime(toWork, fromWork, tipBits, params) ==
    LET d == WorkDifference(toWork, fromWork)
        tipWork == GetBlockProof(tipBits)
    IN  IF tipWork = << >>
        THEN [threw |-> TRUE, value |-> Int64(FALSE, << >>)]
        ELSE LET r == ScaleByWork(d.r, params.nPowTargetSpacing, tipWork)
             IN  [threw |-> FALSE,
                  value |-> IF bits(r) > 63 THEN Saturated(d.sign)
                            ELSE SignTimesLow64(d.sign, GetLow64(r))]


(***************************************************************************)
(* The inputs the calls are made with.                                     *)
(***************************************************************************)
\* Heights are taken this far on either side of each era boundary.
HeightSpread == 1

\* Tip timestamps are taken this far on either side of the nominal one.
TimeDrift == 3

\* Hashes are taken this far on either side of the target.
HashDelta == 1

\* The longest run of minimum-difficulty entries below the tip, short of a
\* run that covers the whole chain.
MaxRun == 2

\* The timestamp of the genesis entry.
GenesisTime == 1000000

AllOnes == Not256(<< >>)

\* ~uint256(0) >> 20, the main network's limit, and ~uint256(0) >> 1, the
\* regression-test network's.
MainPowLimit == Div(AllOnes, FromInt(2^20))

RegtestPowLimit == Div(AllOnes, FromInt(2))

PowLimits == {MainPowLimit, RegtestPowLimit}

Params(powLimit, fMin, fNoRetarget, nTimespan) ==
    [powLimit |-> powLimit,
     fPowAllowMinDifficultyBlocks |-> fMin,
     fPowNoRetargeting |-> fNoRetarget,
     nPowTargetSpacing |-> nTargetSpacing,
     nPowTargetTimespan |-> nTimespan]

\* Adjustment intervals of 1 (joulecoin), 4 and 2016 entries.
Timespans == {nTargetSpacing, 4 * nTargetSpacing, 2016 * nTargetSpacing}

\* Canonical, non-canonical, tiny, huge, zero, negative and overflowed
\* compact values.
ValidCompacts ==
    { Compact(30, 1048575), Compact(32, 8388607), Compact(29, 65535),
      Compact(27, 263371), Compact(32, 65536), Compact(30, 4095),
      Compact(3, 1), Compact(3, 200), Compact(1, 1193046), Compact(34, 255) }

InvalidCompacts ==
    { Compact(0, 0), Compact(4, 9581654), Compact(33, 65536),
      Compact(255, 1193046), Compact(3, 8388608) }

Compacts == ValidCompacts \cup InvalidCompacts

\* Tip heights on both sides of the genesis guard and of the two era
\* boundaries, the genesis entry, and the spec's era-2 scenario.
TipHeights ==
    {0, 32050}
    \cup UNION { (b - 1 - HeightSpread)..(b - 1 + HeightSpread) :
                 b \in {nAveragingInterval1, nHeightVer2, nHeightVer3} }

\* The tip's timestamp relative to an evenly spaced chain: one spacing late
\* (the window then spans exactly the averaging timespan) give or take
\* TimeDrift, far early (before the window's first block) and far late.
TipSkews ==
    {-8000, 800} \cup ((nTargetSpacing - TimeDrift)..(nTargetSpacing + TimeDrift))

Chain(nHeight, skew, run, loBits, hiBits) ==
    [nHeight |-> nHeight, t0 |-> GenesisTime, dt |-> nTargetSpacing,
     tipTime |-> GenesisTime + nHeight * nTargetSpacing + skew,
     run |-> run, loBits |-> loBits, hiBits |-> hiBits]

\* A call on a chain (pindexLast is its tip, or NULL) with a candidate block
\* whose timestamp is off after the tip's.
GetNextCall(chain, pindexLast, off, params) ==
    [chain |-> chain, pindexLast |-> pindexLast,
     nBlockTime |-> chain.tipTime + off, params |-> params]

\* A run of minimum-difficulty entries that covers a whole short chain.
LongRun == nAveragingInterval1 + HeightSpread + 1

\* No tip, or a tip near the genesis guard, under every setting of the flags.
GuardInputs ==
    { GetNextCall(Chain(h, nTargetSpacing, 0, Compact(29, 65535), Compact(29, 65535)),
                  IF hasTip THEN h ELSE NULL, off,
                  Params(MainPowLimit, fMin, fNo, nTargetSpacing)) :
        h \in {x \in TipHeights : x <= nAveragingInterval1 + HeightSpread},
        hasTip \in BOOLEAN, fMin \in BOOLEAN, fNo \in BOOLEAN,
        off \in {-1, 2 * nTargetSpacing + 1} }

\* Test-network mode: runs of minimum-difficulty entries below the tip.
MinDifficultyInputs ==
    { GetNextCall(Chain(h, 0, run, Compact(29, 65535), hi), h, off,
                  Params(MainPowLimit, TRUE, FALSE, ts)) :
        h \in TipHeights,
        run \in (0..MaxRun) \cup {LongRun},
        hi \in {Compact(30, 1048575), Compact(27, 263371)},
        ts \in Timespans,
        off \in {2 * nTargetSpacing, 2 * nTargetSpacing + 1} }

\* Retargeting: tip timestamps around the nominal one.
RetargetInputs ==
    { GetNextCall(Chain(h, skew, 0, bitsOf, bitsOf), h, nTargetSpacing,
                  Params(MainPowLimit, FALSE, fNo, nTargetSpacing)) :
        h \in TipHeights, skew \in TipSkews,
        bitsOf \in {Compact(29, 65535), Compact(30, 1048575)},
        fNo \in BOOLEAN }

GetNextInputs == GuardInputs \cup MinDifficultyInputs \cup RetargetInputs

\* Direct calls of CalculateNextWorkRequired: a tip in era 2 or 3 (or, in
\* era 1, next to the boundary), every compact value as its stored target
\* and an elapsed time on either side of each clamp of its era.
CalcHeights == {h \in TipHeights : h + 1 >= nHeightVer2 - HeightSpread}

Elapsed(nHeight) ==
    LET lim == EraLimits(nHeight)
    IN  {-100, 100000}
        \cup UNION { (a - TimeDrift)..(a + TimeDrift) :
                     a \in {lim.nMinActualTimespan, lim.nAveragingTargetTimespan,
                            lim.nMaxActualTimespan} }

CalcCalls(h) ==
    { [pindexLast |-> [nHeight |-> h, nTime |-> GenesisTime + e, nBits |-> c],
       nFirstBlockTime |-> GenesisTime,
       params |-> Params(limit, FALSE, fNo, nTargetSpacing)] :
        e \in Elapsed(h), c \in Compacts, limit \in PowLimits, fNo \in BOOLEAN }

\* With retargeting disabled the limit is immaterial: one limit is enough.
CalcInputs ==
    UNION { { in \in CalcCalls(h) :
                in.params.fPowNoRetargeting => in.params.powLimit = MainPowLimit } :
            h \in CalcHeights }

\* Hashes around the decoded target of nBits, and the two extremes.
Hashes(nBits) ==
    LET t == SetCompact(nBits).value
    IN  {<< >>, AllOnes}
        \cup { Add256(t, FromInt(k)) : k \in 0..HashDelta }
        \cup { Sub256(t, FromInt(k)) : k \in 1..HashDelta }

CheckInputs ==
    UNION { { [hash |-> hash, nBits |-> c,
               params |-> Params(limit, FALSE, FALSE, nTargetSpacing)] :
              hash \in Hashes(c), limit \in PowLimits } :
            c \in Compacts }

\* Cumulative chain work: none, one easy block, a realistic amount, amounts
\* whose product with the spacing does not fit 256 bits, and the largest.
ChainWorks ==
    { << >>, FromInt(1), FromInt(2^20 + 1), MulSmall(Pow256(5), 3), Pow256(8),
      Add(Div(Pow256(WIDTH_BYTES), FromInt(nTargetSpacing)), FromInt(1)),
      Pow256(WIDTH_BYTES - 1), AllOnes }

EquivInputs ==
    { [toWork |-> a, fromWork |-> b, tipBits |-> c,
       params |-> Params(MainPowLimit, FALSE, FALSE, nTargetSpacing)] :
        a \in ChainWorks, b \in ChainWorks,
        c \in {Compact(30, 1048575), Compact(32, 8388607), Compact(27, 263371),
               Compact(3, 1), Compact(0, 0)} }

(***************************************************************************)
(* The state: the call being made (none between calls), its arguments, its *)
(* outcome and what it wrote to the debug log.  Every function is pure: a  *)
(* call reads nothing but its arguments and leaves nothing behind once the *)
(* caller has taken the outcome.  Every outcome is kept as a record: a     *)
(* bool as [accepted |-> ...], an amount of work as [work |-> ...].        *)
(***************************************************************************)
VARIABLES op, args, ret, log

vars == <<op, args, ret, log>>

Init ==
    /\ op = "none"
    /\ args = << >>
    /\ ret = << >>
    /\ log = << >>

CallGetNextWorkRequired ==
    /\ op = "none"
    /\ \E in \in GetNextInputs :
        /\ op' = "GetNextWorkRequired"
        /\ args' = in
        /\ ret' = GetNextWorkRequired(in.chain, in.pindexLast, in.nBlockTime, in.params)
        /\ log' = << >>

CallCalculateNextWorkRequired ==
    /\ op = "none"
    /\ \E in \in CalcInputs :
        /\ op' = "CalculateNextWorkRequired"
        /\ args' = in
        /\ ret' = CalculateNextWorkRequired(in.pindexLast, in.nFirstBlockTime, in.params)
        /\ log' = CalculateLog(in.pindexLast, in.nFirstBlockTime, in.params)

CallCheckProofOfWork ==
    /\ op = "none"
    /\ \E in \in CheckInputs :
        /\ op' = "CheckProofOfWork"
        /\ args' = in
        /\ ret' = [accepted |-> CheckProofOfWork(in.hash, in.nBits, in.params)]
        /\ log' = << >>

CallGetBlockProof ==
    /\ op = "none"
    /\ \E c \in Compacts :
        /\ op' = "GetBlockProof"
        /\ args' = [nBits |-> c]
        /\ ret' = [work |-> GetBlockProof(c)]
        /\ log' = << >>

CallGetBlockProofEquivalentTime ==
    /\ op = "none"
    /\ \E in \in EquivInputs :
        /\ op' = "GetBlockProofEquivalentTime"
        /\ args' = in
        /\ ret' = GetBlockProofEquivalentTime(in.toWork, in.fromWork, in.tipBits, in.params)
        /\ log' = << >>

\* The caller takes the outcome; the next call may be made.
Return ==
    /\ op # "none"
    /\ op' = "none"
    /\ args' = << >>
    /\ ret' = << >>
    /\ log' = << >>

Next ==
    \/ CallGetNextWorkRequired
    \/ CallCalculateNextWorkRequired
    \/ CallCheckProofOfWork
    \/ CallGetBlockProof
    \/ CallGetBlockProofEquivalentTime
    \/ Return

Spec == Init /\ [][Next]_vars

(***************************************************************************)
(* The properties.  Where a property speaks of exact arithmetic it is      *)
(* stated over the unbounded naturals (MulSmall, Div, Add), never over the *)
(* 256-bit operations of the code.                                         *)
(***************************************************************************)
NatMin(a, b) == IF Leq(a, b) THEN a ELSE b

InCalculate == op = "CalculateNextWorkRequired"

Retargeting == InCalculate /\ ~args.params.fPowNoRetargeting

CandidateHeight == args.pindexLast.nHeight + 1

InEra1 == CandidateHeight < 32000

InEra2 == CandidateHeight >= 32000 /\ CandidateHeight < 90000

InEra3 == CandidateHeight >= 90000

\* The averaging timespan of the call's era, from the spec's table.
TableTimespan == IF InEra1 THEN 160 * 45 ELSE 8 * 45

\* The elapsed time of the call, clamped to the bounds the code applies.
TableClamped ==
    LET e == args.pindexLast.nTime - args.nFirstBlockTime
        lo == IF InEra1 THEN 7128 ELSE 356
        hi == IF InEra1 THEN 7920 ELSE IF InEra2 THEN 363 ELSE 370
    IN  Max2(lo, Min2(hi, e))

\* floor(oldTarget * clampedActualTimespan / averagingTimespan), exactly.
ExactNewTarget ==
    Div(MulSmall(SetCompact(args.pindexLast.nBits).value, TableClamped),
        FromInt(TableTimespan))

\* C1: with retargeting enabled CalculateNextWorkRequired returns
\* Encode(min(powLimit, floor(oldTarget * clampedActualTimespan /
\* averagingTimespan))), the product taken in exact arithmetic; so an elapsed
\* time equal to the averaging timespan returns the tip's target unchanged.
C1_ExactRetarget ==
    Retargeting =>
        ret = GetCompact(NatMin(args.params.powLimit, ExactNewTarget))

\* C1, on the calls whose product fits 256 bits: there the code agrees with
\* the exact computation.
C1_ExactWhenNoWrap ==
    (Retargeting /\ Len(MulSmall(SetCompact(args.pindexLast.nBits).value,
                                 TableClamped)) <= WIDTH_BYTES) =>
        ret = GetCompact(NatMin(args.params.powLimit, ExactNewTarget))

\* C2 as claimed: the clamped timespan stays within 90%..101% of 160*45 in
\* era 1, 99%..101% of 8*45 in era 2 and 97%..101% of 8*45 in era 3.
C2_TableClamps ==
    Retargeting =>
        /\ InEra1 => /\ 100 * log.nActualTimespan >= 90 * (160 * 45)
                     /\ 100 * log.nActualTimespan <= 101 * (160 * 45)
        /\ InEra2 => /\ 100 * log.nActualTimespan >= 99 * (8 * 45)
                     /\ 100 * log.nActualTimespan <= 101 * (8 * 45)
        /\ InEra3 => /\ 100 * log.nActualTimespan >= 97 * (8 * 45)
                     /\ 100 * log.nActualTimespan <= 101 * (8 * 45)

\* C2 as amended: the clamped timespan is the elapsed time where that lies
\* within the bounds, and otherwise the nearer bound, the bounds being
\* 7128..7920 in era 1 (99% and 110% of 160*45), 356..363 in era 2 (99% and
\* 101% of 8*45, rounded down) and 356..370 in era 3 (99% and 103% of 8*45,
\* rounded down).
C2_CodeClamps ==
    Retargeting =>
        /\ log.nActualTimespan = TableClamped
        /\ InEra1 => log.nActualTimespan \in 7128..7920
        /\ InEra2 => log.nActualTimespan \in 356..363
        /\ InEra3 => log.nActualTimespan \in 356..370

\* An era-1 call whose elapsed time was cut down to 110% of the averaging
\* timespan.
C2_Witness ==
    /\ Retargeting
    /\ InEra1
    /\ args.pindexLast.nTime - args.nFirstBlockTime > 7920
    /\ log.nActualTimespan = 7920

\* C3: in era 2, unless the new target was capped to powLimit, it is within
\* 1% of the old target: 99 * old <= 100 * new <= 101 * old.
C3_WithinOnePercent ==
    LET old == SetCompact(args.pindexLast.nBits).value
        new == RetargetedTarget(args.pindexLast, args.nFirstBlockTime)
    IN  (Retargeting /\ InEra2 /\ Leq(new, args.params.powLimit)) =>
            /\ Leq(MulSmall(old, 99), MulSmall(new, 100))
            /\ Leq(MulSmall(new, 100), MulSmall(old, 101))

\* C3, on the calls whose product fits 256 bits: the new target is
\* floor(old * t / 360) for a t in 356..363.
C3_WithinCodeClamp ==
    LET old == SetCompact(args.pindexLast.nBits).value
        new == RetargetedTarget(args.pindexLast, args.nFirstBlockTime)
    IN  (Retargeting /\ InEra2 /\ Len(MulSmall(old, 363)) <= WIDTH_BYTES) =>
            /\ Leq(MulSmall(old, 356), Add(MulSmall(new, 360), FromInt(359)))
            /\ Leq(MulSmall(new, 360), MulSmall(old, 363))

\* The magnitude a compact value stands for, exactly: its low 23 bits times
\* 256^(exponent - 3), rounded down.
ExactMagnitude(nCompact) ==
    LET word == FromInt(nCompact.mant % 2^23)
    IN  IF nCompact.size >= 3 THEN ShlBytes(word, nCompact.size - 3)
        ELSE ShrBytes(word, 3 - nCompact.size)

\* C4: CheckProofOfWork accepts exactly when the target's sign bit is clear,
\* its magnitude fits 256 bits, is non-zero and at most powLimit, and the
\* hash is at most that magnitude.
C4_CheckProofOfWork ==
    op = "CheckProofOfWork" =>
        LET m == ExactMagnitude(args.nBits)
        IN  ret.accepted <=>
                /\ ~(args.nBits.mant >= 2^23 /\ m # << >>)
                /\ Len(m) <= 32
                /\ m # << >>
                /\ Cmp(m, args.params.powLimit) <= 0
                /\ Cmp(args.hash, m) <= 0

\* A hash equal to a valid target, accepted.
C4_Witness ==
    /\ op = "CheckProofOfWork"
    /\ args.hash = ExactMagnitude(args.nBits)
    /\ ret.accepted

\* C5: GetBlockProof is zero for a negative, overflowed or zero target and
\* otherwise floor(2^256 / (m + 1)) in exact arithmetic; a larger target
\* never has more work.
C5_BlockProof ==
    op = "GetBlockProof" =>
        LET m == ExactMagnitude(args.nBits)
            bad == \/ args.nBits.mant >= 2^23 /\ m # << >>
                   \/ Len(m) > 32
                   \/ m = << >>
        IN  /\ bad => ret.work = << >>
            /\ ~bad => ret.work = Div(Pow256(32), Add(m, FromInt(1)))
            /\ ~bad => \A c \in ValidCompacts :
                           Leq(m, ExactMagnitude(c)) => Leq(GetBlockProof(c), ret.work)

\* The work of a valid target that is neither the least nor the greatest of
\* the targets tried.
C5_Witness ==
    /\ op = "GetBlockProof"
    /\ args.nBits = Compact(30, 1048575)
    /\ ret.work = FromInt(2^20 + 1)

InGetNext == op = "GetNextWorkRequired"

\* The candidate height is below 160, or there is no tip.
BelowFirstWindow == args.pindexLast = NULL \/ args.pindexLast + 1 < 160

\* C6: with no tip, or a candidate height below 160, GetNextWorkRequired
\* returns the compact encoding of powLimit, whatever the flags and the
\* candidate's timestamp.
C6_GenesisGuard ==
    (InGetNext /\ BelowFirstWindow) =>
        /\ ~ret.asserted
        /\ ret.nBits = GetCompact(args.params.powLimit)

\* A tip one below the last guarded height, with retargeting on and
\* test-network mode off.
C6_Witness ==
    /\ InGetNext
    /\ args.pindexLast = 158
    /\ ~args.params.fPowAllowMinDifficultyBlocks
    /\ ~args.params.fPowNoRetargeting
    /\ ret.nBits = Compact(30, 1048575)

InEquivalentTime == op = "GetBlockProofEquivalentTime"

\* |to.chainWork - from.chainWork| * spacing, and that over work(tip),
\* exactly.
ExactProduct ==
    MulSmall(IF Leq(args.fromWork, args.toWork)
             THEN Sub(args.toWork, args.fromWork)
             ELSE Sub(args.fromWork, args.toWork),
             args.params.nPowTargetSpacing)

ExactScaledWork == Div(ExactProduct, GetBlockProof(args.tipBits))

\* C7: for a tip of non-zero work GetBlockProofEquivalentTime returns
\* sign * min(2^63 - 1, floor(|to - from| * spacing / work(tip))), product
\* and quotient exact: it saturates whenever the magnitude needs more than
\* 63 bits.
C7_ExactEquivalentTime ==
    (InEquivalentTime /\ GetBlockProof(args.tipBits) # << >>) =>
        /\ ~ret.threw
        /\ ret.value.mag = NatMin(Sub(MulSmall(Pow256(7), 128), FromInt(1)), ExactScaledWork)
        /\ ret.value.mag # << >> =>
               (ret.value.neg <=> Gt(args.fromWork, args.toWork))

\* C7, on the calls whose product fits 256 bits: there the code agrees with
\* the exact computation.
C7_ExactWhenNoWrap ==
    (/\ InEquivalentTime
     /\ GetBlockProof(args.tipBits) # << >>
     /\ Len(ExactProduct) <= WIDTH_BYTES) =>
        /\ ~ret.threw
        /\ ret.value.mag = NatMin(Sub(MulSmall(Pow256(7), 128), FromInt(1)),
                                  ExactScaledWork)
        /\ ret.value.mag # << >> =>
               (ret.value.neg <=> Gt(args.fromWork, args.toWork))

\* C8: swapping to and from negates the result and keeps its magnitude (and
\* a call that throws still throws).
C8_Antisymmetric ==
    InEquivalentTime =>
        LET swapped == GetBlockProofEquivalentTime(args.fromWork, args.toWork,
                                                   args.tipBits, args.params)
        IN  /\ swapped.threw = ret.threw
            /\ swapped.value.mag = ret.value.mag
            /\ ret.value.mag # << >> => swapped.value.neg # ret.value.neg
            /\ (~ret.threw /\ args.toWork = args.fromWork) => ret.value.mag = << >>

\* A saturated negative result.
C8_Witness ==
    /\ InEquivalentTime
    /\ ~ret.threw
    /\ ret.value.neg
    /\ NatBits(ret.value.mag) = 63
    /\ NatBits(Add(ret.value.mag, FromInt(1))) = 64

\* An entry the walk for the last ordinary target stops on.
StopsWalk(h) ==
    \/ h % (args.params.nPowTargetTimespan \div args.params.nPowTargetSpacing) = 0
    \/ nBitsAt(args.chain, h) # GetCompact(args.params.powLimit)

PastGuard == InGetNext /\ args.pindexLast # NULL /\ args.pindexLast + 1 >= 160

\* C9: in test-network mode past the genesis guard the result is powLimit
\* when the candidate is more than 2 * spacing after the tip, and otherwise
\* the stored target of the first entry at or below the tip that is on an
\* adjustment-interval boundary or does not carry the minimum-difficulty
\* target; it is never a retargeted value.
C9_MinDifficulty ==
    (PastGuard /\ args.params.fPowAllowMinDifficultyBlocks) =>
        /\ ret.path = "mindiff"
        /\ ~ret.asserted
        /\ IF args.nBlockTime >
                  args.chain.tipTime + 2 * args.params.nPowTargetSpacing
           THEN ret.nBits = GetCompact(args.params.powLimit)
           ELSE /\ ret.pindex \in 0..args.pindexLast
                /\ StopsWalk(ret.pindex)
                /\ \A h \in (ret.pindex + 1)..args.pindexLast : ~StopsWalk(h)
                /\ ret.nBits = nBitsAt(args.chain, ret.pindex)

\* A walk that passed at least two minimum-difficulty entries and stopped on
\* an interval boundary that carries the minimum-difficulty target itself.
C9_Witness ==
    /\ PastGuard
    /\ args.params.fPowAllowMinDifficultyBlocks
    /\ ret.pindex # NULL
    /\ ret.pindex + 2 <= args.pindexLast
    /\ nBitsAt(args.chain, ret.pindex) = GetCompact(args.params.powLimit)

\* The window the spec's table gives the call's era.
TableWindow == IF args.pindexLast + 1 < 32000 THEN 160 ELSE 8

\* C10: with test-network mode off and past the genesis guard, the walk
\* takes exactly window - 1 steps, the assert does not fail, and the walk
\* ends on the entry at height tip - (window - 1), whose timestamp is the
\* one CalculateNextWorkRequired is called with.
C10_WalkBack ==
    (PastGuard /\ ~args.params.fPowAllowMinDifficultyBlocks) =>
        /\ ret.path = "retarget"
        /\ ~ret.asserted
        /\ ret.steps = TableWindow - 1
        /\ ret.pindex = args.pindexLast - (TableWindow - 1)
        /\ ret.nFirstBlockTime =
               args.chain.t0 + (args.pindexLast - (TableWindow - 1)) * args.chain.dt
        /\ ret.nBits = CalculateNextWorkRequired(
                           BlockIndex(args.chain, args.pindexLast),
                           ret.nFirstBlockTime, args.params)

\* The shortest chain past the guard: the walk ends on the genesis entry.
C10_Witness ==
    /\ PastGuard
    /\ ~args.params.fPowAllowMinDifficultyBlocks
    /\ args.pindexLast = 159
    /\ ret.pindex = 0
    /\ ret.steps = 159

=============================================================================
